---- MODULE Spec2Model ----
(***************************************************************************)
(* Crop-optimizer: the two Streamlit scripts that formulate a land         *)
(* allocation linear program with PuLP, solve it and report the result.    *)
(*                                                                         *)
(*   script = "basic"     src/streamlit_crop_optimizer.py                  *)
(*   script = "advanced"  src/streamlit_crop_optimizer_advanced.py         *)
(*                                                                         *)
(* Numbers.  The scripts compute in floating point; the model computes in  *)
(* exact integers and rationals (a rational is a numerator over a positive *)
(* denominator).  Weights and factors that the sliders give in steps of    *)
(* 0.1 are carried as tenths (alpha = 5 stands for 0.5), and a constraint  *)
(* row is carried in a unit that divides both of its sides, which leaves   *)
(* the inequality unchanged:                                               *)
(*   basic     area unit 250 ha; water row in units of 125,000;            *)
(*             labor and equipment rows in units of 250;                   *)
(*             profit_per_ha in thousands of rupees                        *)
(*   advanced  area in ha, water in litres; labor and equipment rows in    *)
(*             units of 5,000                                              *)
(***************************************************************************)
EXTENDS Integers, Sequences, FiniteSets, TLC

(***************************************************************************)
(* Arithmetic helpers                                                      *)
(***************************************************************************)
Abs(a) == IF a < 0 THEN -a ELSE a

RECURSIVE Gcd(_, _)
Gcd(a, b) == IF b = 0 THEN Abs(a) ELSE Gcd(Abs(b), Abs(a) % Abs(b))

RECURSIVE SumOver(_, _)
\* sum(f[i] for i in S)
SumOver(S, f) ==
  IF S = {} THEN 0
  ELSE LET i == CHOOSE j \in S : TRUE IN f[i] + SumOver(S \ {i}, f)

RECURSIVE SetToSeq(_)
SetToSeq(S) ==
  IF S = {} THEN <<>>
  ELSE LET i == CHOOSE j \in S : TRUE IN <<i>> \o SetToSeq(S \ {i})

\* A rational point: num[i] / den for every variable i, in lowest terms.
Normal(num, den) ==
  LET RECURSIVE GAll(_, _)
      GAll(S, acc) == IF S = {} THEN acc
                      ELSE LET i == CHOOSE j \in S : TRUE
                           IN GAll(S \ {i}, Gcd(acc, num[i]))
      d == GAll(DOMAIN num, den)
  IN [num |-> [i \in DOMAIN num |-> num[i] \div d], den |-> den \div d]

(***************************************************************************)
(* The external LP solver (PuLP's default solver behind model.solve()).    *)
(* It is modelled by its contract: a maximisation of objective . x over    *)
(* rows coef . x <= bound with every variable continuous and >= 0          *)
(* (lowBound=0) is infeasible, unbounded, or has an optimal solution, and  *)
(* the values returned are those of an optimal solution.  The optimum of   *)
(* a bounded feasible program is attained at a vertex, so the model        *)
(* enumerates the vertices exactly (Cramer's rule on every choice of       *)
(* variables held at 0 and rows held tight).                               *)
(***************************************************************************)
RHS == <<>>

\* a row's coefficient on a variable it does not mention is 0
Coef(coef, i) == IF i \in DOMAIN coef THEN coef[i] ELSE 0

Entry(row, col) == IF col = RHS THEN row.bound ELSE Coef(row.coef, col)

DropAt(s, k) == SubSeq(s, 1, k - 1) \o SubSeq(s, k + 1, Len(s))

RECURSIVE Det(_, _)
\* determinant of the square matrix with rows rs and columns cs
Det(rs, cs) ==
  IF Len(rs) = 0 THEN 1
  ELSE LET r == Head(rs)
           Term(k) == LET a == Entry(r, cs[k])
                      IN IF a = 0 THEN 0
                         ELSE (IF k % 2 = 1 THEN a ELSE -a)
                              * Det(Tail(rs), DropAt(cs, k))
       IN SumOver(1..Len(cs), [k \in 1..Len(cs) |-> Term(k)])

\* The point with the variables of zero at 0 and the rows of tight holding
\* with equality; den = 0 when those rows do not determine a point.
BasicPoint(idx, zero, tight) ==
  LET fs == SetToSeq(idx \ zero)
      rs == SetToSeq(tight)
      d  == Det(rs, fs)
      s  == IF d < 0 THEN -1 ELSE 1
      Num(i) == IF i \in zero THEN 0
                ELSE LET k == CHOOSE j \in 1..Len(fs) : fs[j] = i
                     IN s * Det(rs, [fs EXCEPT ![k] = RHS])
  IN IF d = 0 THEN [num |-> [i \in idx |-> 0], den |-> 0]
     ELSE Normal([i \in idx |-> Num(i)], s * d)

Dot(coef, x) ==
  SumOver(DOMAIN x.num, [i \in DOMAIN x.num |-> Coef(coef, i) * x.num[i]])

Satisfies(x, row) == Dot(row.coef, x) <= row.bound * x.den

Feasible(idx, rows, x) ==
  /\ \A i \in idx : x.num[i] >= 0
  /\ \A r \in rows : Satisfies(x, r)

Vertices(idx, rows) ==
  LET n == Cardinality(idx)
      cand == UNION {
                { BasicPoint(idx, z, t) :
                    t \in { s \in SUBSET rows : Cardinality(s) = n - Cardinality(z) } }
                : z \in SUBSET idx }
  IN { x \in cand : x.den > 0 /\ Feasible(idx, rows, x) }

\* the objective's value at x is greater than at y
Better(obj, x, y) == Dot(obj, x) * y.den > Dot(obj, y) * x.den

\* The directions the feasible region recedes in, cut to a polytope.
Recession(idx, rows) ==
  Vertices(idx, { [name |-> r.name, coef |-> r.coef, bound |-> 0] : r \in rows }
                \cup { [name |-> <<"Unit">>, coef |-> [i \in idx |-> 1], bound |-> 1] })

MidPoint(x, y) ==
  Normal([i \in DOMAIN x.num |-> x.num[i] * y.den + y.num[i] * x.den],
         2 * x.den * y.den)

LpStatusOptimal == 1
LpStatusNotSolved == 0
LpStatusInfeasible == -1
LpStatusUnbounded == -2
LpStatusUndefined == -3

LpStatus ==
  { LpStatusOptimal, LpStatusNotSolved, LpStatusInfeasible,
    LpStatusUnbounded, LpStatusUndefined }

NoValue == [num |-> <<>>, den |-> 0]

\* What model.solve() may leave behind: the status and the variables' values.
\* An optimal program returns an optimal vertex, or a point between two of
\* them when the optimum is not unique.
SolverOutcomes(idx, obj, rows) ==
  LET vs   == Vertices(idx, rows)
      best == { x \in vs : \A y \in vs : ~Better(obj, y, x) }
  IN IF vs = {} THEN { [status |-> LpStatusInfeasible, value |-> NoValue] }
     ELSE IF \E d \in Recession(idx, rows) : Dot(obj, d) > 0
          THEN { [status |-> LpStatusUnbounded, value |-> NoValue] }
     ELSE { [status |-> LpStatusOptimal, value |-> x] :
              x \in best \cup { MidPoint(x, y) : x, y \in best } }

\* round(v, 2) and the ".2f" format: the multiple of 1/scale nearest to
\* num/den, as a count of 1/scale; a tie goes to the even count (a tie has a
\* power of two as denominator, which floating point holds exactly).
RoundTo(num, den, scale) ==
  LET q == num \div den
      a == (num % den) * scale
      f == a \div den
      m == 2 * (a % den)
      n == q * scale + f
  IN IF m < den THEN n
     ELSE IF m > den THEN n + 1
     ELSE IF n % 2 = 0 THEN n ELSE n + 1

(***************************************************************************)
(* The scripts' inputs                                                     *)
(***************************************************************************)
VARIABLES
  script,               \* which of the two scripts runs
  crops,                \* basic: the multiselect's selection; advanced: the list
  total_land, total_water, total_labor, total_equipment,
  alpha, beta, gamma,
  profit_per_ha, water_per_ha, labor_per_ha, equipment_per_ha,
  price_fluctuation, weather_factor, sustainability_score,
  yield_per_ha, price_per_ton, fertilizer_per_ha,
  field_area, field_water, rainfall_index

(***************************************************************************)
(* The "Run Optimization" handler's state                                  *)
(***************************************************************************)
VARIABLES
  pc,                   \* the statement the handler is at
  land,                 \* the LpVariables' index set (None before they exist)
  adjusted_profit, profit_cost, sustain_cost, hybrid_cost,
  objective,            \* model.objective: coefficient per variable
  constraints,          \* model.constraints: the rows added so far
  todo,                 \* the fields the constraint loop has yet to visit
  status,               \* model.status
  varValue,             \* the variables' values after the solve
  solveCalls,           \* how often model.solve() has been called
  output                \* what the page shows below the button

inputs ==
  << script, crops, total_land, total_water, total_labor, total_equipment,
     alpha, beta, gamma, profit_per_ha, water_per_ha, labor_per_ha,
     equipment_per_ha, price_fluctuation, weather_factor, sustainability_score,
     yield_per_ha, price_per_ton, fertilizer_per_ha, field_area, field_water,
     rainfall_index >>

costs == << adjusted_profit, profit_cost, sustain_cost, hybrid_cost >>

vars ==
  << inputs, pc, land, costs, objective, constraints, todo, status, varValue,
     solveCalls, output >>

available_crops == {"Wheat", "Rice", "Maize"}

\* The advanced script lists five crops and three fields; the model keeps
\* the first two of each, which keeps one field beside another and one crop
\* beside another in every row.
advanced_crops == {"Wheat", "Rice"}
fields == <<"Field A", "Field B">>

fertilizer_cost == 25

Range(s) == { s[k] : k \in 1..Len(s) }

(***************************************************************************)
(* The inputs the widgets accept, in the model's units.                    *)
(*   basic     total_land 1000..10000 ha       -> 4..40 units of 250 ha    *)
(*             total_water 1e6..1e7            -> 8..80 units of 125,000   *)
(*             total_labor 10000..100000       -> 40..400 units of 250     *)
(*             total_equipment 5000..50000     -> 20..200 units of 250     *)
(*             water_per_ha 500..3000          -> 1..6 units of 500        *)
(*             labor_per_ha 10..50, equipment_per_ha 5..20, as given       *)
(*             profit_per_ha 5000..25000       -> 5..25 thousands          *)
(*             price_fluctuation 0.8..1.2, weather_factor 0.7..1.0,        *)
(*             alpha, beta 0.0..1.0            -> tenths                   *)
(*   advanced  every number_input has min_value=0 and no maximum;          *)
(*             total_labor 10000..150000       -> 2..30 units of 5,000     *)
(*             total_equipment 5000..50000     -> 1..10 units of 5,000     *)
(*             labor_per_ha, equipment_per_ha  -> units of 5,000 per ha    *)
(*             alpha, beta, gamma, rainfall_index 0.0..1.0 -> tenths       *)
(***************************************************************************)
MinLand == 4
MaxLand == 5
MaxFieldArea == 2
MaxFieldWater == 2

BasicProfiles ==
  { [profit |-> 9, water |-> 2, labor |-> 25, equipment |-> 8,
     price |-> 10, weather |-> 9, sustain |-> 3],
    [profit |-> 12, water |-> 4, labor |-> 50, equipment |-> 8,
     price |-> 10, weather |-> 10, sustain |-> 1],
    [profit |-> 5, water |-> 1, labor |-> 10, equipment |-> 5,
     price |-> 8, weather |-> 7, sustain |-> 5] }

BasicWeights == { <<8, 2>>, <<10, 0>>, <<0, 0>> }

AdvancedProfiles ==
  { [yield |-> 3, price |-> 30, fertilizer |-> 0, water |-> 1,
     labor |-> 0, equipment |-> 0],
    [yield |-> 2, price |-> 40, fertilizer |-> 1, water |-> 3,
     labor |-> 1, equipment |-> 1],
    [yield |-> 1, price |-> 10, fertilizer |-> 2, water |-> 0,
     labor |-> 0, equipment |-> 2] }

AdvancedWeights == { <<5, 3, 7>>, <<0, 0, 10>>, <<10, 10, 10>> }

FieldBProfiles ==
  { [area |-> 1, water |-> 0, rainfall |-> 10],
    [area |-> 1, water |-> 2, rainfall |-> 0],
    [area |-> 2, water |-> 1, rainfall |-> 5] }

NoObjective == [name |-> <<>>, coef |-> <<>>]

NoOutput ==
  [kind |-> "none", land_alloc |-> NoValue, result_table |-> <<>>,
   total_profit |-> 0, total_sustainability |-> 0, total_cost |-> 0]

\* The state when the button is pressed: nothing of the handler has run.
HandlerInit ==
  /\ pc = "BuildModel"
  /\ land = {}
  /\ adjusted_profit = <<>> /\ profit_cost = <<>>
  /\ sustain_cost = <<>> /\ hybrid_cost = <<>>
  /\ objective = NoObjective
  /\ constraints = {}
  /\ todo = <<>>
  /\ status = LpStatusNotSolved
  /\ varValue = NoValue
  /\ solveCalls = 0
  /\ output = NoOutput

BasicInit ==
  /\ script = "basic"
  /\ crops \in SUBSET available_crops
  /\ total_land \in MinLand..MaxLand
  /\ total_water \in {8, 12}
  /\ total_labor \in {40, 300}
  /\ total_equipment = 80
  /\ \E w \in BasicWeights : alpha = w[1] /\ beta = w[2]
  /\ gamma = 0
  /\ \E prof \in [crops -> BasicProfiles] :
       /\ profit_per_ha = [c \in crops |-> prof[c].profit]
       /\ water_per_ha = [c \in crops |-> prof[c].water]
       /\ labor_per_ha = [c \in crops |-> prof[c].labor]
       /\ equipment_per_ha = [c \in crops |-> prof[c].equipment]
       /\ price_fluctuation = [c \in crops |-> prof[c].price]
       /\ weather_factor = [c \in crops |-> prof[c].weather]
       /\ sustainability_score = [c \in crops |-> prof[c].sustain]
  /\ yield_per_ha = <<>> /\ price_per_ton = <<>> /\ fertilizer_per_ha = <<>>
  /\ field_area = <<>> /\ field_water = <<>> /\ rainfall_index = <<>>

AdvancedInit ==
  /\ script = "advanced"
  /\ crops = advanced_crops
  /\ total_land = 0 /\ total_water = 0
  /\ total_labor = 2
  /\ total_equipment = 1
  /\ \E w \in AdvancedWeights : alpha = w[1] /\ beta = w[2] /\ gamma = w[3]
  /\ \E prof \in [advanced_crops -> AdvancedProfiles] :
       /\ yield_per_ha = [c \in crops |-> prof[c].yield]
       /\ price_per_ton = [c \in crops |-> prof[c].price]
       /\ fertilizer_per_ha = [c \in crops |-> prof[c].fertilizer]
       /\ water_per_ha = [c \in crops |-> prof[c].water]
       /\ labor_per_ha = [c \in crops |-> prof[c].labor]
       /\ equipment_per_ha = [c \in crops |-> prof[c].equipment]
  /\ \E a \in 0..MaxFieldArea, w \in 0..MaxFieldWater, b \in FieldBProfiles :
       /\ field_area = (fields[1] :> a) @@ (fields[2] :> b.area)
       /\ field_water = (fields[1] :> w) @@ (fields[2] :> b.water)
       /\ rainfall_index = (fields[1] :> 7) @@ (fields[2] :> b.rainfall)
  /\ profit_per_ha = <<>> /\ price_fluctuation = <<>>
  /\ weather_factor = <<>> /\ sustainability_score = <<>>

Init == (BasicInit \/ AdvancedInit) /\ HandlerInit

(***************************************************************************)
(* The formulation                                                         *)
(***************************************************************************)
CropOf(i) == i[Len(i)]
FieldOf(i) == i[1]

\* LpVariable.dicts("LandAllocated", crops, lowBound=0)
BasicVariables == { <<c>> : c \in crops }

\* LpVariable.dicts("Land", ((field, crop) for field in fields for crop in crops), ...)
AdvancedVariables == { <<f, c>> : f \in Range(fields), c \in crops }

\* profit_per_ha * price_fluctuation * weather_factor, in tens of rupees per ha
AdjustedProfit(c) == profit_per_ha[c] * price_fluctuation[c] * weather_factor[c]

\* the weights taken the wrong way round
BasicCoefficientSwapped(c) ==
  10 * beta * adjusted_profit[c] + alpha * sustainability_score[c]

\* alpha * adjusted_profit * land + beta * sustainability_score * land: the
\* coefficient of land[crop], in tenths of a rupee per ha
BasicCoefficient(c) ==
  10 * alpha * adjusted_profit[c] + beta * sustainability_score[c]

\* the fertilizer's cost taken off the profit: -(Y * P) + (F * fertilizer_cost)
ProfitCostNet(c) ==
  -(yield_per_ha[c] * price_per_ton[c]) + (fertilizer_per_ha[c] * fertilizer_cost)

\* -(Y * P) - (F * fertilizer_cost), in rupees per ha
ProfitCost(c) ==
  -(yield_per_ha[c] * price_per_ton[c]) - (fertilizer_per_ha[c] * fertilizer_cost)

\* beta * (F * fertilizer_cost) + alpha * (W * (1 - RI)), in hundredths
SustainCost(f, c) ==
  10 * beta * (fertilizer_per_ha[c] * fertilizer_cost)
    + alpha * (water_per_ha[c] * (10 - rainfall_index[f]))

\* gamma * profit_cost + sustain_cost, in hundredths
HybridCost(f, c) == 10 * gamma * ProfitCost(c) + SustainCost(f, c)

BasicObjective ==
  [name |-> <<"Combined_Objective">>,
   coef |-> [i \in { <<c>> : c \in crops } |-> BasicCoefficient(CropOf(i))]]

AdvancedObjective ==
  [name |-> <<"Total_Hybrid_Cost">>,
   coef |-> [i \in { <<f, c>> : f \in Range(fields), c \in crops } |-> -hybrid_cost[i]]]

LandRow ==
  [name |-> <<"Land_Constraint">>,
   coef |-> [i \in { <<c>> : c \in crops } |-> 1],
   bound |-> total_land]

BasicWaterRow ==
  [name |-> <<"Water_Constraint">>,
   coef |-> [i \in { <<c>> : c \in crops } |-> water_per_ha[CropOf(i)]],
   bound |-> total_water]

\* the labor row bounded by the equipment budget
BasicLaborRowOfEquipment ==
  [name |-> <<"Labor_Constraint">>,
   coef |-> [i \in { <<c>> : c \in crops } |-> labor_per_ha[CropOf(i)]],
   bound |-> total_equipment]

BasicLaborRow ==
  [name |-> <<"Labor_Constraint">>,
   coef |-> [i \in { <<c>> : c \in crops } |-> labor_per_ha[CropOf(i)]],
   bound |-> total_labor]

BasicEquipmentRow ==
  [name |-> <<"Equipment_Constraint">>,
   coef |-> [i \in { <<c>> : c \in crops } |-> equipment_per_ha[CropOf(i)]],
   bound |-> total_equipment]

\* the area row written with >= for <=
AreaRowAtLeast(f) ==
  [name |-> <<"Area", f>>,
   coef |-> [i \in { <<f, c>> : c \in crops } |-> -1],
   bound |-> -field_area[f]]

AreaRow(f) ==
  [name |-> <<"Area", f>>,
   coef |-> [i \in { <<f, c>> : c \in crops } |-> 1],
   bound |-> field_area[f]]

\* the water row bounded by the field's area
WaterRowOfArea(f) ==
  [name |-> <<"Water", f>>,
   coef |-> [i \in { <<f, c>> : c \in crops } |-> water_per_ha[CropOf(i)]],
   bound |-> field_area[f]]

WaterRow(f) ==
  [name |-> <<"Water", f>>,
   coef |-> [i \in { <<f, c>> : c \in crops } |-> water_per_ha[CropOf(i)]],
   bound |-> field_water[f]]

\* the labor row summed over the first field alone
LaborRowFirstField ==
  [name |-> <<"Labor">>,
   coef |-> [i \in { <<fields[1], c>> : c \in crops } |-> labor_per_ha[CropOf(i)]],
   bound |-> total_labor]

LaborRow ==
  [name |-> <<"Labor">>,
   coef |-> [i \in { <<f, c>> : f \in Range(fields), c \in crops }
               |-> labor_per_ha[CropOf(i)]],
   bound |-> total_labor]

EquipmentRow ==
  [name |-> <<"Equipment">>,
   coef |-> [i \in { <<f, c>> : f \in Range(fields), c \in crops }
               |-> equipment_per_ha[CropOf(i)]],
   bound |-> total_equipment]

(***************************************************************************)
(* The handler of src/streamlit_crop_optimizer.py, statement by statement  *)
(***************************************************************************)
AddRow(at, row, next) ==
  /\ pc = at
  /\ constraints' = constraints \cup {row}
  /\ pc' = next
  /\ UNCHANGED << inputs, land, costs, objective, todo, status, varValue,
                  solveCalls, output >>

BasicBuildModel ==
  /\ script = "basic" /\ pc = "BuildModel"
  /\ land' = BasicVariables
  /\ objective' = NoObjective
  /\ constraints' = {}
  /\ pc' = "AdjustedProfit"
  /\ UNCHANGED << inputs, costs, todo, status, varValue, solveCalls, output >>

BasicAdjustedProfit ==
  /\ script = "basic" /\ pc = "AdjustedProfit"
  /\ adjusted_profit' = [c \in crops |-> AdjustedProfit(c)]
  /\ pc' = "Objective"
  /\ UNCHANGED << inputs, land, profit_cost, sustain_cost, hybrid_cost, objective,
                  constraints, todo, status, varValue, solveCalls, output >>

BasicAddObjective ==
  /\ script = "basic" /\ pc = "Objective"
  /\ objective' = BasicObjective
  /\ pc' = "Land"
  /\ UNCHANGED << inputs, land, costs, constraints, todo, status, varValue,
                  solveCalls, output >>

BasicAddLand == script = "basic" /\ AddRow("Land", LandRow, "Water")

BasicAddWater == script = "basic" /\ AddRow("Water", BasicWaterRow, "Labor")

BasicAddLabor == script = "basic" /\ AddRow("Labor", BasicLaborRow, "Equipment")

BasicAddEquipment ==
  script = "basic" /\ AddRow("Equipment", BasicEquipmentRow, "Solve")

(***************************************************************************)
(* The handler of src/streamlit_crop_optimizer_advanced.py                 *)
(***************************************************************************)
AdvancedBuildModel ==
  /\ script = "advanced" /\ pc = "BuildModel"
  /\ land' = AdvancedVariables
  /\ objective' = NoObjective
  /\ constraints' = {}
  /\ pc' = "Costs"
  /\ UNCHANGED << inputs, costs, todo, status, varValue, solveCalls, output >>

AdvancedCosts ==
  /\ script = "advanced" /\ pc = "Costs"
  /\ profit_cost' = [i \in AdvancedVariables |-> ProfitCost(CropOf(i))]
  /\ sustain_cost' = [i \in AdvancedVariables |-> SustainCost(FieldOf(i), CropOf(i))]
  /\ hybrid_cost' = [i \in AdvancedVariables |-> HybridCost(FieldOf(i), CropOf(i))]
  /\ pc' = "Objective"
  /\ UNCHANGED << inputs, land, adjusted_profit, objective, constraints, todo,
                  status, varValue, solveCalls, output >>

AdvancedAddObjective ==
  /\ script = "advanced" /\ pc = "Objective"
  /\ objective' = AdvancedObjective
  /\ todo' = fields
  /\ pc' = "Fields"
  /\ UNCHANGED << inputs, land, costs, constraints, status, varValue,
                  solveCalls, output >>

\* one turn of "for field in fields": the field's area row and water row
AdvancedAddField ==
  /\ script = "advanced" /\ pc = "Fields" /\ todo # <<>>
  /\ constraints' = constraints \cup { AreaRow(Head(todo)), WaterRow(Head(todo)) }
  /\ todo' = Tail(todo)
  /\ pc' = IF Tail(todo) = <<>> THEN "Labor" ELSE "Fields"
  /\ UNCHANGED << inputs, land, costs, objective, status, varValue, solveCalls,
                  output >>

AdvancedAddLabor == script = "advanced" /\ AddRow("Labor", LaborRow, "Equipment")

AdvancedAddEquipment ==
  script = "advanced" /\ AddRow("Equipment", EquipmentRow, "Solve")

(***************************************************************************)
(* model.solve() and the report                                            *)
(***************************************************************************)
SolveWith(outcomes) ==
  /\ pc = "Solve"
  /\ \E o \in outcomes : status' = o.status /\ varValue' = o.value
  /\ solveCalls' = solveCalls + 1
  /\ pc' = "Report"
  /\ UNCHANGED << inputs, land, costs, objective, constraints, todo, output >>

\* model.solve() with a solver that keeps its contract
Solve == SolveWith(SolverOutcomes(land, objective.coef, constraints))

\* model.solve() with the solver taken as it is imported: any status PuLP
\* defines may come back, and values come with LpStatusOptimal alone
SolveOpaque ==
  SolveWith(SolverOutcomes(land, objective.coef, constraints)
            \cup { [status |-> st, value |-> NoValue] :
                     st \in LpStatus \ {LpStatusOptimal} })

\* hectares in one unit of area
HaPerUnit == IF script = "basic" THEN 250 ELSE 1

\* f"{total_profit:,.2f}": sum(adjusted_profit[crop] * varValue), in hundredths
TotalProfit(x) ==
  RoundTo(SumOver(land, [i \in land |-> adjusted_profit[CropOf(i)] * x.num[i]]),
          x.den, 250000)

\* f"{total_sustainability:.2f}": sum(sustainability_score[crop] * varValue)
TotalSustainability(x) ==
  RoundTo(SumOver(land, [i \in land |-> sustainability_score[CropOf(i)] * x.num[i]]),
          x.den, 25000)

\* round(land[field, crop].varValue or 0, 2), in hundredths of a hectare
ResultTable(x) == [i \in land |-> RoundTo(x.num[i], x.den, 100)]

\* f"{total_cost:,.2f}": sum(hybrid_cost * varValue), in hundredths
TotalCost(x) ==
  RoundTo(SumOver(land, [i \in land |-> hybrid_cost[i] * x.num[i]]), x.den, 1)

ErrorOutput == [NoOutput EXCEPT !.kind = "error"]

\* if model.status == 1: ... else: st.error("Optimization failed ...")
BasicOutput(st, x) ==
  IF st = LpStatusOptimal
  THEN [NoOutput EXCEPT !.kind = "results",
                        !.land_alloc = x,
                        !.total_profit = TotalProfit(x),
                        !.total_sustainability = TotalSustainability(x)]
  ELSE ErrorOutput

\* the report written without the test of model.status
AdvancedOutputUnguarded(st, x) ==
  [NoOutput EXCEPT !.kind = "results",
                   !.result_table = IF x = NoValue THEN <<>> ELSE ResultTable(x),
                   !.total_cost = IF x = NoValue THEN 0 ELSE TotalCost(x)]

AdvancedOutput(st, x) ==
  IF st = LpStatusOptimal
  THEN [NoOutput EXCEPT !.kind = "results",
                        !.result_table = ResultTable(x),
                        !.total_cost = TotalCost(x)]
  ELSE ErrorOutput

BasicReport ==
  /\ script = "basic" /\ pc = "Report"
  /\ output' = BasicOutput(status, varValue)
  /\ pc' = "Done"
  /\ UNCHANGED << inputs, land, costs, objective, constraints, todo, status,
                  varValue, solveCalls >>

AdvancedReport ==
  /\ script = "advanced" /\ pc = "Report"
  /\ output' = AdvancedOutput(status, varValue)
  /\ pc' = "Done"
  /\ UNCHANGED << inputs, land, costs, objective, constraints, todo, status,
                  varValue, solveCalls >>

Formulate ==
  \/ BasicBuildModel \/ BasicAdjustedProfit \/ BasicAddObjective
  \/ BasicAddLand \/ BasicAddWater \/ BasicAddLabor \/ BasicAddEquipment
  \/ AdvancedBuildModel \/ AdvancedCosts \/ AdvancedAddObjective
  \/ AdvancedAddField \/ AdvancedAddLabor \/ AdvancedAddEquipment

Next == Formulate \/ Solve \/ BasicReport \/ AdvancedReport

Spec == Init /\ [][Next]_vars

NextOpaque == Formulate \/ SolveOpaque \/ BasicReport \/ AdvancedReport

SpecOpaque == Init /\ [][NextOpaque]_vars

(***************************************************************************)
(* Properties                                                              *)
(***************************************************************************)
Solved == pc \in {"Report", "Done"}

Optimal == Solved /\ status = LpStatusOptimal

\* the value of variable i is the whole number k
ValueIs(i, k) == varValue.num[i] = k * varValue.den

\* the area the area constraint grants the variable's field
AreaOf(i) == IF script = "basic" THEN total_land ELSE field_area[FieldOf(i)]

\* the water budget the variable draws on
WaterOf(i) == IF script = "basic" THEN total_water ELSE field_water[FieldOf(i)]

\* Section 4.2's penalty-subtracted coefficient, in hundredths:
\* w_profit * (yield * price)
\*   - [w_fertilizer * (fertilizer * fertilizerCost) + w_water * (water * (1 - RI))]
PenaltySubtracted(f, c) ==
  10 * gamma * (yield_per_ha[c] * price_per_ton[c])
    - (10 * beta * (fertilizer_per_ha[c] * fertilizer_cost)
       + alpha * (water_per_ha[c] * (10 - rainfall_index[f])))

\* C1 as claimed: with profit weight 1 the hybrid cost-to-score coefficient,
\* -hybrid_cost, equals the penalty-subtracted coefficient for every pair.
C1_HybridEqualsPenaltySubtracted ==
  (script = "advanced" /\ hybrid_cost # <<>> /\ gamma = 10) =>
    \A i \in DOMAIN hybrid_cost :
      -hybrid_cost[i] = PenaltySubtracted(FieldOf(i), CropOf(i))

\* C1 as amended: with profit weight 1 the hybrid cost-to-score coefficient
\* equals the penalty-subtracted coefficient plus fertilizer * fertilizer_cost
\* for every pair (the two agree where the crop takes no fertilizer).
C1_HybridIsPenaltySubtractedPlusFertilizer ==
  (script = "advanced" /\ hybrid_cost # <<>> /\ gamma = 10) =>
    \A i \in DOMAIN hybrid_cost :
      -hybrid_cost[i] = PenaltySubtracted(FieldOf(i), CropOf(i))
                          + 100 * (fertilizer_per_ha[CropOf(i)] * fertilizer_cost)

C1_Witness ==
  /\ script = "advanced" /\ hybrid_cost # <<>>
  /\ gamma = 10 /\ alpha > 0 /\ beta > 0
  /\ \E i \in DOMAIN hybrid_cost :
       /\ fertilizer_per_ha[CropOf(i)] > 0 /\ water_per_ha[CropOf(i)] > 0
       /\ rainfall_index[FieldOf(i)] < 10

\* a water budget of zero while every crop needs water
ZeroWater(i) == WaterOf(i) = 0 /\ \A c \in crops : water_per_ha[c] > 0

\* C2 as claimed: a run with a water budget of zero and every crop needing
\* water ends INFEASIBLE, not in the success branch.
C2_ZeroWaterInfeasible ==
  (pc = "Done" /\ \E i \in land : ZeroWater(i)) =>
    (status = LpStatusInfeasible /\ output.kind # "results")

\* C2 as amended: such a run is feasible and ends in the success branch with
\* status optimal, and every variable that draws on the empty water budget is 0.
C2_ZeroWaterOptimalAtZero ==
  /\ Solved => \A i \in land : ZeroWater(i) =>
                 (status = LpStatusOptimal /\ ValueIs(i, 0))
  /\ pc = "Done" => \A i \in land : ZeroWater(i) =>
                      /\ output.kind = "results"
                      /\ script = "advanced" => output.result_table[i] = 0

C2_Witness ==
  /\ pc = "Done" /\ output.kind = "results"
  /\ \E i \in land : ZeroWater(i)
  /\ \E j \in land : varValue.num[j] > 0

\* the typed status Section 4.4 maps a solver status to
TypedStatus(st) ==
  IF st = LpStatusOptimal THEN "OPTIMAL"
  ELSE IF st = LpStatusInfeasible THEN "INFEASIBLE"
  ELSE IF st = LpStatusUnbounded THEN "UNBOUNDED"
  ELSE "ERROR"

OutputFor(st) ==
  IF script = "basic" THEN BasicOutput(st, varValue)
  ELSE AdvancedOutput(st, varValue)

\* C3: every solver outcome is reported as its own typed status: what the run
\* reports differs from what it would report for any outcome of another type
\* (an unbounded outcome is never reported like an infeasible one).
C3_OutcomesReportedDistinctly ==
  pc = "Done" =>
    \A st \in LpStatus :
      (TypedStatus(st) # TypedStatus(status) /\ st # LpStatusOptimal)
        => output # OutputFor(st)

\* C4: the solver is never called on a program whose variable index set is empty.
C4_NoSolveOnEmptyIndexSet == solveCalls > 0 => land # {}

\* the table's value of variable i: the value rounded to 2 decimals, in
\* hundredths of a hectare
Rounded(i) == RoundTo(varValue.num[i], varValue.den, 100 * HaPerUnit)

\* C5: on an optimal run every reported total equals the sum of the per-unit
\* coefficient times the allocation rounded to 2 decimals.
C5_TotalsFromRoundedAllocation ==
  (pc = "Done" /\ output.kind = "results") =>
    IF script = "basic"
    THEN /\ output.total_profit =
              SumOver(land, [i \in land |-> 10 * adjusted_profit[CropOf(i)] * Rounded(i)])
         /\ output.total_sustainability =
              SumOver(land, [i \in land |-> sustainability_score[CropOf(i)] * Rounded(i)])
    ELSE output.total_cost =
           RoundTo(SumOver(land, [i \in land |-> hybrid_cost[i] * Rounded(i)]), 100, 1)

\* the variables a family of constraint rows refers to
Referenced(family) ==
  UNION { DOMAIN r.coef : r \in { q \in constraints : q.name[1] = family } }

Families ==
  IF script = "basic"
  THEN {"Land_Constraint", "Water_Constraint", "Labor_Constraint",
        "Equipment_Constraint"}
  ELSE {"Area", "Water", "Labor", "Equipment"}

\* C6: once the program is built, the variables of the objective are exactly
\* the variables each family of constraint rows (area, water, labor,
\* equipment) refers to, and exactly the variables created.
C6_SameIndexSet ==
  pc \in {"Solve", "Report", "Done"} =>
    /\ DOMAIN objective.coef = land
    /\ \A fam \in Families : Referenced(fam) = DOMAIN objective.coef

C6_Witness ==
  /\ pc = "Solve" /\ script = "advanced"
  /\ Cardinality(DOMAIN objective.coef) = 4
  /\ Cardinality(constraints) = 6

\* the profit weight is 1 and every other weight is 0
ProfitOnly ==
  IF script = "basic" THEN alpha = 10 /\ beta = 0
  ELSE gamma = 10 /\ alpha = 0 /\ beta = 0

\* the profit per area the script's objective gives a crop
Profit(c) == IF script = "basic" THEN adjusted_profit[c] ELSE -ProfitCost(c)

HighestProfit(c) == \A d \in crops : Profit(d) <= Profit(c)

\* C7 as claimed: with profit weight 1 and the other weights 0, an optimal
\* allocation gives area to the crop of highest profit per area alone.
C7_OnlyHighestProfitCrop ==
  (Optimal /\ ProfitOnly) =>
    \A i \in land : varValue.num[i] > 0 => HighestProfit(CropOf(i))

\* the whole area planted with crop k
AllTo(k) ==
  [num |-> [i \in land |-> IF CropOf(i) = k THEN AreaOf(i) ELSE 0], den |-> 1]

\* crop k alone has the highest profit per area, that profit is positive, and
\* the whole area planted with it breaks no water, labor or equipment limit
Dominant(k) ==
  /\ Profit(k) > 0
  /\ \A d \in crops \ {k} : Profit(d) < Profit(k)
  /\ \A r \in constraints : Satisfies(AllTo(k), r)

\* C7 as amended: when moreover one crop alone has the highest profit per
\* area and planting the whole area with it breaks no limit, every optimal
\* allocation gives that crop the whole area of every field and the others none.
C7_DominantCropFillsArea ==
  (Optimal /\ ProfitOnly) =>
    \A k \in crops : Dominant(k) => varValue = AllTo(k)

C7_Witness ==
  /\ Optimal /\ ProfitOnly /\ Cardinality(crops) >= 2
  /\ \E k \in crops : Dominant(k) /\ \E i \in land : varValue.num[i] > 0

\* the scenario of C8: one field of 1000 ha (4 units), two crops needing
\* 1000 and 2000 of water per ha (2 and 4), a water budget of 1,500,000 (12)
Scenario ==
  /\ script = "basic" /\ total_land = 4 /\ total_water = 12
  /\ Cardinality(crops) = 2
  /\ { water_per_ha[c] : c \in crops } = {2, 4}

\* what the allocation uses of a resource, times the values' denominator
Used(per_ha) == SumOver(land, [i \in land |-> per_ha[CropOf(i)] * varValue.num[i]])

AreaTight == SumOver(land, varValue.num) = total_land * varValue.den
WaterTight == Used(water_per_ha) = total_water * varValue.den
LaborTight == Used(labor_per_ha) = total_labor * varValue.den
EquipmentTight == Used(equipment_per_ha) = total_equipment * varValue.den

\* no crop has a positive objective coefficient: the optimum without the
\* resource constraints lies inside the feasible region
NothingToGain == \A i \in land : objective.coef[i] <= 0

\* C8 as claimed: in the scenario an optimal allocation makes the area
\* constraint or the water constraint tight, unless there is nothing to gain.
C8_AreaOrWaterTight ==
  (Optimal /\ Scenario) => (AreaTight \/ WaterTight \/ NothingToGain)

\* C8 as amended: in the scenario an optimal allocation makes one of the
\* area, water, labor and equipment constraints tight, unless there is
\* nothing to gain.
C8_SomeConstraintTight ==
  (Optimal /\ Scenario) =>
    (AreaTight \/ WaterTight \/ LaborTight \/ EquipmentTight \/ NothingToGain)

C8_Witness ==
  /\ Optimal /\ Scenario /\ ~NothingToGain
  /\ LaborTight /\ ~AreaTight /\ ~WaterTight

\* the names of the rows a built program holds
RowNames ==
  IF script = "basic"
  THEN { <<"Land_Constraint">>, <<"Water_Constraint">>, <<"Labor_Constraint">>,
         <<"Equipment_Constraint">> }
  ELSE { <<"Area", f>> : f \in Range(fields) } \cup { <<"Water", f>> : f \in Range(fields) }
       \cup { <<"Labor">>, <<"Equipment">> }

\* C9: a run goes build objective, build constraints, solve, extract: the
\* solver is called once, after the objective and every row are there; values
\* and totals are reported after the solve and on an optimal status alone.
C9_BuildSolveExtract ==
  /\ solveCalls = (IF Solved THEN 1 ELSE 0)
  /\ constraints # {} => objective # NoObjective
  /\ solveCalls > 0 =>
       (objective # NoObjective /\ { r.name : r \in constraints } = RowNames)
  /\ (varValue # NoValue \/ status # LpStatusNotSolved) => solveCalls = 1
  /\ output # NoOutput => (pc = "Done" /\ solveCalls = 1)
  /\ pc = "Done" =>
       IF status = LpStatusOptimal
       THEN output.kind = "results" /\ varValue # NoValue
       ELSE output = ErrorOutput

C9_Witness ==
  /\ pc = "Done" /\ script = "advanced" /\ status = LpStatusInfeasible
  /\ output = ErrorOutput /\ solveCalls = 1

ZeroPoint == [num |-> [i \in land |-> 0], den |-> 1]

\* C10: for every accepted input with at least one crop the program has an optimal solution: the
\* all-zero allocation satisfies every row, the solver's status is optimal with
\* every variable between 0 and its area, and the run ends in the success branch.
C10_AlwaysOptimal ==
  land # {} =>
    /\ pc = "Solve" => Feasible(land, constraints, ZeroPoint)
    /\ Solved =>
         /\ status = LpStatusOptimal
         /\ \A i \in land :
              0 <= varValue.num[i] /\ varValue.num[i] <= AreaOf(i) * varValue.den
    /\ pc = "Done" => output.kind = "results"

C10_Witness ==
  /\ pc = "Done" /\ output.kind = "results" /\ land # {}
  /\ \E i \in land : varValue.num[i] = AreaOf(i) * varValue.den /\ AreaOf(i) > 0

====
